---- MODULE Spec2Model ----
(***************************************************************************)
(* Model of modal-backend/render.py: the render_video handler that draws   *)
(* a tracer overlay frame by frame, stores each frame as a PNG in a        *)
(* temporary directory and then runs FFmpeg over the numbered sequence.    *)
(*                                                                         *)
(* Numbers that are floats in Python (fps, duration, fps_scale, widths)    *)
(* are exact rationals <<num, den>> with den > 0.                          *)
(* The progress and timing output of the handler is left out, except the   *)
(* divisions in it that can raise.  frame_idx / fps_scale at line 121      *)
(* cannot divide by zero: the loop body runs only if total_frames > 0,     *)
(* hence output_fps # 0.                                                   *)
(***************************************************************************)
EXTENDS Integers, Sequences, FiniteSets, TLC

(***************************************************************************)
(* Bounds of the model.                                                    *)
(***************************************************************************)
MaxPoints == 3
MaxFrameIdx == 2
MaxDurTicks == 6

(***************************************************************************)
(* Exact rational arithmetic.                                              *)
(***************************************************************************)
Rat(n) == <<n, 1>>

RatNorm(n, d) == IF d < 0 THEN <<-n, -d>> ELSE <<n, d>>

RatMul(a, b) == <<a[1] * b[1], a[2] * b[2]>>

RatDiv(a, b) == RatNorm(a[1] * b[2], a[2] * b[1])

RatAdd(a, b) == <<a[1] * b[2] + b[1] * a[2], a[2] * b[2]>>

RatSub(a, b) == <<a[1] * b[2] - b[1] * a[2], a[2] * b[2]>>

RatLe(a, b) == a[1] * b[2] <= b[1] * a[2]

\* Python int(): truncation toward zero
PyInt(a) == IF a[1] >= 0 THEN a[1] \div a[2] ELSE -((-a[1]) \div a[2])

(***************************************************************************)
(* Request fields and their defaults.                                      *)
(***************************************************************************)
DefaultFps == 60
DefaultSourceFps == 30
DefaultLineWidth == 4
DefaultGlowIntensity == 10

Gold == <<"#", "F", "F", "D", "7", "0", "0">>
OrangeRed == <<"#", "F", "F", "4", "5", "0", "0">>
Green == <<"#", "0", "0", "F", "F", "0", "0">>
Blue == <<"#", "1", "E", "9", "0", "F", "F">>

DefaultStyle ==
    [startColor |-> Gold, endColor |-> OrangeRed,
     lineWidth |-> DefaultLineWidth, glowIntensity |-> DefaultGlowIntensity]

RequiredKeys == {"video_base64", "points", "width", "height", "duration"}

\* dict.get(key, default)
Get(d, key, default) == IF key \in DOMAIN d THEN d[key] ELSE default

(***************************************************************************)
(* hex_to_rgb and interpolate_color.                                       *)
(***************************************************************************)
HexDigits ==
    <<"0", "1", "2", "3", "4", "5", "6", "7", "8", "9",
      "A", "B", "C", "D", "E", "F">>

HexVal(c) == (CHOOSE k \in 1..16 : HexDigits[k] = c) - 1

RECURSIVE LStripHash(_)
LStripHash(s) ==
    IF s # <<>> /\ Head(s) = "#" THEN LStripHash(Tail(s)) ELSE s

hex_to_rgb(hex_color) ==
    LET h == LStripHash(hex_color)
    IN  [k \in 1..3 |-> 16 * HexVal(h[2 * k - 1]) + HexVal(h[2 * k])]

\* t is a rational; the result is (r, g, b, 255)
interpolate_color(color1, color2, t) ==
    LET c1 == hex_to_rgb(color1)
        c2 == hex_to_rgb(color2)
        ch(k) == PyInt(RatAdd(Rat(c1[k]), RatMul(Rat(c2[k] - c1[k]), t)))
    IN  <<ch(1), ch(2), ch(3), 255>>

(***************************************************************************)
(* Frame timing and the visible points.                                    *)
(***************************************************************************)
FpsScale(output_fps, source_fps) == RatDiv(Rat(output_fps), Rat(source_fps))

TotalFrames(duration, output_fps) == PyInt(RatMul(duration, Rat(output_fps)))

\* mutant: the frame index multiplied by the ratio instead of divided
SourceFrameIdxMultiplied(frame_idx, scale_ratio) == RatMul(Rat(frame_idx), scale_ratio)

SourceFrameIdx(frame_idx, scale_ratio) == RatDiv(Rat(frame_idx), scale_ratio)

\* mutant: sourceFrameIndex < cutoff instead of <=
RECURSIVE SelectPointsStrict(_, _)
SelectPointsStrict(pts, cutoff) ==
    IF pts = <<>> THEN <<>>
    ELSE IF ~RatLe(cutoff, Rat(Head(pts).frameIndex))
         THEN <<Head(pts)>> \o SelectPointsStrict(Tail(pts), cutoff)
         ELSE SelectPointsStrict(Tail(pts), cutoff)

RECURSIVE SelectPoints(_, _)
SelectPoints(pts, cutoff) ==
    IF pts = <<>> THEN <<>>
    ELSE IF RatLe(Rat(Head(pts).frameIndex), cutoff)
         THEN <<Head(pts)>> \o SelectPoints(Tail(pts), cutoff)
         ELSE SelectPoints(Tail(pts), cutoff)

VisiblePoints(pts, frame_idx, scale_ratio) ==
    SelectPoints(pts, SourceFrameIdx(frame_idx, scale_ratio))

(***************************************************************************)
(* Adaptive supersampling.                                                 *)
(***************************************************************************)
Pixels1080p == 1920 * 1080
Pixels4K == 3840 * 2160
LongJobFrames == 600
MediumJobFrames == 300

\* mutant: both conditions required for scale 1
ChooseScaleBoth(w, h, frames) ==
    LET total_pixels == w * h
        is_high_res == total_pixels >= Pixels1080p
        is_4k == total_pixels >= Pixels4K
    IN  IF is_4k /\ frames > LongJobFrames THEN 1
        ELSE IF is_high_res \/ frames > MediumJobFrames THEN 2
        ELSE 2

ChooseScale(w, h, frames) ==
    LET total_pixels == w * h
        is_high_res == total_pixels >= Pixels1080p
        is_4k == total_pixels >= Pixels4K
    IN  IF is_4k \/ frames > LongJobFrames THEN 1
        ELSE IF is_high_res \/ frames > MediumJobFrames THEN 2
        ELSE 2

(***************************************************************************)
(* Rasterizing one overlay frame.  A frame is its final size, the canvas   *)
(* it was drawn on and the drawing operations applied to that canvas; a    *)
(* frame without operations has every pixel (0, 0, 0, 0).                  *)
(***************************************************************************)
GlowLayers == 3

At(p, s) == <<p.x * s, p.y * s>>

\* t = i / (len(visible_points) - 1)
Ramp(i, n) == IF n > 1 THEN <<i, n - 1>> ELSE Rat(0)

SegmentColor(st, i, n) ==
    interpolate_color(st["startColor"], st["endColor"], Ramp(i, n))

\* glow_width = line_width + glow_intensity * layer * 0.5; int(glow_width * scale)
GlowWidth(lw, glow, layer, s) ==
    PyInt(RatMul(RatAdd(Rat(lw), <<glow * layer, 2>>), Rat(s)))

\* base_width = line_width * (1 - t * 0.3) * scale
BaseWidth(lw, i, n, s) ==
    RatMul(RatMul(Rat(lw), RatSub(Rat(1), RatMul(Ramp(i, n), <<3, 10>>))), Rat(s))

GlowPass(vp, st, s, lw, glow) ==
    LET n == Len(vp)
    IN  IF glow > 0
        THEN [k \in 1..(GlowLayers * (n - 1)) |->
                LET layer == GlowLayers - ((k - 1) \div (n - 1))
                    i == ((k - 1) % (n - 1)) + 1
                    color == SegmentColor(st, i, n)
                IN  [kind |-> "line", p1 |-> At(vp[i], s), p2 |-> At(vp[i + 1], s),
                     fill |-> <<color[1], color[2], color[3], PyInt(<<40, layer>>)>>,
                     width |-> GlowWidth(lw, glow, layer, s)]]
        ELSE <<>>

CorePass(vp, st, s, lw) ==
    LET n == Len(vp)
    IN  [k \in 1..(3 * (n - 1)) |->
            LET i == ((k - 1) \div 3) + 1
                step == (k - 1) % 3
                color == SegmentColor(st, i, n)
                base_width == BaseWidth(lw, i, n, s)
            IN  CASE step = 0 ->
                       [kind |-> "line", p1 |-> At(vp[i], s), p2 |-> At(vp[i + 1], s),
                        fill |-> <<color[1], color[2], color[3], 120>>,
                        width |-> PyInt(RatMul(base_width, <<13, 10>>))]
                  [] step = 1 ->
                       [kind |-> "line", p1 |-> At(vp[i], s), p2 |-> At(vp[i + 1], s),
                        fill |-> color, width |-> PyInt(base_width)]
                  [] OTHER ->
                       [kind |-> "ellipse", p1 |-> At(vp[i + 1], s),
                        p2 |-> At(vp[i + 1], s), fill |-> color,
                        width |-> PyInt(RatMul(base_width, <<1, 2>>))]]

\* Image.new("RGBA", (width, height), (0, 0, 0, 0))
EmptyFrame(w, h) == [size |-> <<w, h>>, canvas |-> <<w, h>>, ops |-> <<>>]

\* the drawing of a frame raises KeyError on a style without both colors
StyleKeyError(vp, st) ==
    Len(vp) >= 2 /\ ~({"startColor", "endColor"} \subseteq DOMAIN st)

\* mutant: the empty overlay created at the supersampled size
RasterFrameScaledEmpty(vp, st, w, h, s, lw, glow) ==
    IF Len(vp) < 2
    THEN EmptyFrame(w * s, h * s)
    ELSE [size |-> <<w, h>>, canvas |-> <<w * s, h * s>>,
          ops |-> GlowPass(vp, st, s, lw, glow) \o CorePass(vp, st, s, lw)]

\* one frame of the loop body: the image that is saved
RasterFrame(vp, st, w, h, s, lw, glow) ==
    IF Len(vp) < 2
    THEN EmptyFrame(w, h)
    ELSE [size |-> <<w, h>>, canvas |-> <<w * s, h * s>>,
          ops |-> GlowPass(vp, st, s, lw, glow) \o CorePass(vp, st, s, lw)]

(***************************************************************************)
(* File names of the overlay sequence.                                     *)
(***************************************************************************)
RECURSIVE Decimal(_)
Decimal(k) == IF k < 10 THEN <<k>> ELSE Decimal(k \div 10) \o <<k % 10>>

RECURSIVE ZeroPad(_, _)
ZeroPad(digits, n) == IF Len(digits) >= n THEN digits ELSE ZeroPad(<<0>> \o digits, n)

\* mutant: the frame number padded to five digits instead of six
FramePathFiveDigits(frame_idx) ==
    <<"overlay">> \o ZeroPad(Decimal(frame_idx), 5) \o <<".png">>

\* mutant: every frame saved under the same name
FramePathNoIndex(frame_idx) == <<"overlay", ".png">>

\* f"overlay{frame_idx:06d}.png"
FramePath(frame_idx) == <<"overlay">> \o ZeroPad(Decimal(frame_idx), 6) \o <<".png">>

\* the k-th name of the pattern overlay%06d.png given to FFmpeg
SequencePath(k) == <<"overlay">> \o ZeroPad(Decimal(k), 6) \o <<".png">>

\* FFmpeg looks for the first file of the sequence among the numbers 0..4
StartNumbers == 0..4

RECURSIVE ReadFrom(_, _)
ReadFrom(dir, k) ==
    IF SequencePath(k) \in DOMAIN dir
    THEN <<dir[SequencePath(k)]>> \o ReadFrom(dir, k + 1)
    ELSE <<>>

\* the frames FFmpeg reads: the numbered files from the first one up to the
\* first gap
ReadSequence(dir) ==
    LET found == {k \in StartNumbers : SequencePath(k) \in DOMAIN dir}
    IN  IF found = {} THEN <<>>
        ELSE ReadFrom(dir, CHOOSE k \in found : \A j \in found : k <= j)

SaveFile(dir, path, content) ==
    [n \in DOMAIN dir \cup {path} |-> IF n = path THEN content ELSE dir[n]]

(***************************************************************************)
(* Transport encoding and the response.                                    *)
(***************************************************************************)
b64decode(text) == Tail(text)

b64encode(bytes) == <<"b64">> \o bytes

NoFile == <<>>

\* mutant: a generic message instead of the captured stderr
ResponseGenericError(returncode, stderr, output_bytes) ==
    IF returncode # 0
    THEN [error |-> "FFmpeg failed"]
    ELSE [success |-> TRUE, video_base64 |-> b64encode(output_bytes)]

Response(returncode, stderr, output_bytes) ==
    IF returncode # 0
    THEN [error |-> stderr]
    ELSE [success |-> TRUE, video_base64 |-> b64encode(output_bytes)]

(***************************************************************************)
(* The requests under check.                                               *)
(***************************************************************************)
Restrict(f, keys) == [k \in (DOMAIN f) \cap keys |-> f[k]]

Without(f, keys) == [k \in (DOMAIN f) \ keys |-> f[k]]

MkPoints(f) ==
    [i \in 1..Len(f) |-> [frameIndex |-> f[i], x |-> 10 + 40 * (i - 1), y |-> 10]]

PointLists ==
    {MkPoints(f) : f \in UNION {[1..n -> 0..MaxFrameIdx] : n \in 0..MaxPoints}}

SomePointLists ==
    {MkPoints(f) : f \in {<<>>, <<0>>, <<0, 1>>, <<1, 0>>, <<0, 1, 2>>}}

CustomStyle ==
    [startColor |-> Green, endColor |-> Blue, lineWidth |-> 6, glowIntensity |-> 0]

PartialStyles ==
    {Restrict(CustomStyle, ks) :
        ks \in {{}, {"lineWidth"}, {"glowIntensity"}, {"startColor", "endColor"},
                {"startColor", "lineWidth", "glowIntensity"},
                {"endColor", "lineWidth", "glowIntensity"}}}

Video == b64encode(<<"input.mp4">>)

Request(pts, fps, sfps, w, h, dur, st) ==
    [video_base64 |-> Video, points |-> pts, fps |-> fps, source_fps |-> sfps,
     width |-> w, height |-> h, duration |-> dur, style |-> st]

\* every point list, three rate pairs, durations in sixtieths of a second
TimelineRequests ==
    {Request(pts, r[1], r[2], 640, 360, <<d, 60>>, DefaultStyle) :
        pts \in PointLists, r \in {<<30, 30>>, <<60, 30>>, <<30, 60>>},
        d \in 0..MaxDurTicks}

\* styles: complete, partial, absent
StyleRequests ==
    {Request(pts, 30, 30, 640, 360, <<d, 60>>, st) :
        pts \in SomePointLists, st \in {CustomStyle} \cup PartialStyles, d \in {2, 6}}
    \cup {Without(Request(pts, 60, 30, 640, 360, <<6, 60>>, <<>>), {"style"}) :
            pts \in SomePointLists}

\* geometry that is missing, defaulted, zero or negative
GeometryRequests ==
    {Request(pts, fps, sfps, 640, 360, <<d, 60>>, DefaultStyle) :
        pts \in {MkPoints(<<0, 1>>)}, fps \in {-30, 0, 30}, sfps \in {-30, 0, 30},
        d \in {-4, 0, 1, 4}}
    \cup {Without(Request(MkPoints(<<0, 1>>), 30, 30, 640, 360, <<4, 60>>, DefaultStyle), ks) :
            ks \in {{"fps"}, {"source_fps"}, {"fps", "source_fps"}, {"width"},
                    {"height"}, {"duration"}, {"points"}, {"video_base64"}}}

\* resolutions and frame counts on both sides of the supersampling thresholds
PolicyRequests ==
    {Request(MkPoints(<<0, 1>>), 60, 30, wh[1], wh[2], <<d, 60>>, DefaultStyle) :
        wh \in {<<1280, 720>>, <<1920, 1080>>, <<1080, 1920>>, <<3840, 2159>>,
                <<3840, 2160>>, <<4096, 2160>>},
        d \in {4}}
    \cup {Request(MkPoints(<<0, 0>>), 60, 30, 640, 360, <<d, 60>>, DefaultStyle) :
            d \in {LongJobFrames, LongJobFrames + 1}}

Requests == TimelineRequests \cup StyleRequests \cup GeometryRequests \cup PolicyRequests

Diagnostics == {"boom", "Invalid data found when processing input"}

(***************************************************************************)
(* State of one render job.                                                *)
(***************************************************************************)
VARIABLES
    data,                \* the request body
    pc,                  \* "start", "loop", "ffmpeg", "check", "done"; an exception
                         \* ends in "rejected" (before the temporary directory
                         \* exists) or "raised" (inside it)
    points, output_fps, source_fps, width, height, duration, style,
    fps_scale, total_frames, line_width, glow_intensity, scale,
    frame_idx,           \* the next value of the loop variable
    visible_points, img, frames_with_content,
    input_file, overlay_dir, output_file,   \* the temporary directory
    ffmpeg,              \* the runs of the encoder and what the last one read and returned
    output_bytes, result, raised,
    visible_log          \* history: visible_points of every iteration so far

vars ==
    <<data, pc, points, output_fps, source_fps, width, height, duration, style,
      fps_scale, total_frames, line_width, glow_intensity, scale, frame_idx,
      visible_points, img, frames_with_content, input_file, overlay_dir,
      output_file, ffmpeg, output_bytes, result, raised, visible_log>>

locals ==
    <<points, output_fps, source_fps, width, height, duration, style,
      fps_scale, total_frames, line_width, glow_intensity, scale>>

loopVars == <<frame_idx, visible_points, img, frames_with_content, visible_log>>

NoImage == <<>>
EmptyDir == <<>>
NoResult == <<>>

Init ==
    /\ data \in Requests
    /\ pc = "start"
    /\ points = <<>>
    /\ output_fps = 0
    /\ source_fps = 0
    /\ width = 0
    /\ height = 0
    /\ duration = Rat(0)
    /\ style = <<>>
    /\ fps_scale = Rat(0)
    /\ total_frames = 0
    /\ line_width = 0
    /\ glow_intensity = 0
    /\ scale = 0
    /\ frame_idx = 0
    /\ visible_points = <<>>
    /\ img = NoImage
    /\ frames_with_content = 0
    /\ input_file = NoFile
    /\ overlay_dir = EmptyDir
    /\ output_file = NoFile
    /\ ffmpeg = [runs |-> 0, frames |-> <<>>, returncode |-> 0, stderr |-> ""]
    /\ output_bytes = NoFile
    /\ result = NoResult
    /\ raised = "none"
    /\ visible_log = <<>>

(***************************************************************************)
(* Leaving the with-block removes the temporary directory.                 *)
(***************************************************************************)
Cleanup ==
    /\ input_file' = NoFile
    /\ overlay_dir' = EmptyDir
    /\ output_file' = NoFile

(***************************************************************************)
(* Reading the request.                                                    *)
(***************************************************************************)
\* data["video_base64"], data["points"], data["width"], ... on a missing key
BeginKeyError ==
    /\ pc = "start"
    /\ ~(RequiredKeys \subseteq DOMAIN data)
    /\ raised' = "KeyError"
    /\ pc' = "rejected"
    /\ UNCHANGED <<data, locals, loopVars, input_file, overlay_dir, output_file,
                   ffmpeg, output_bytes, result>>

\* fps_scale = output_fps / source_fps with source_fps = 0
BeginZeroDivision ==
    /\ pc = "start"
    /\ RequiredKeys \subseteq DOMAIN data
    /\ Get(data, "source_fps", DefaultSourceFps) = 0
    /\ raised' = "ZeroDivisionError"
    /\ pc' = "rejected"
    /\ UNCHANGED <<data, locals, loopVars, input_file, overlay_dir, output_file,
                   ffmpeg, output_bytes, result>>

\* everything up to the first iteration of the frame loop
Begin ==
    /\ pc = "start"
    /\ RequiredKeys \subseteq DOMAIN data
    /\ Get(data, "source_fps", DefaultSourceFps) # 0
    /\ points' = data["points"]
    /\ output_fps' = Get(data, "fps", DefaultFps)
    /\ source_fps' = Get(data, "source_fps", DefaultSourceFps)
    /\ width' = data["width"]
    /\ height' = data["height"]
    /\ duration' = data["duration"]
    /\ style' = Get(data, "style", DefaultStyle)
    /\ fps_scale' = FpsScale(output_fps', source_fps')
    /\ input_file' = b64decode(data["video_base64"])
    /\ overlay_dir' = EmptyDir
    /\ total_frames' = TotalFrames(duration', output_fps')
    /\ line_width' = Get(style', "lineWidth", DefaultLineWidth)
    /\ glow_intensity' = Get(style', "glowIntensity", DefaultGlowIntensity)
    /\ scale' = ChooseScale(width', height', total_frames')
    /\ pc' = "loop"
    /\ UNCHANGED <<data, loopVars, output_file, ffmpeg, output_bytes, result, raised>>

(***************************************************************************)
(* One iteration of the frame loop.                                        *)
(***************************************************************************)
RenderFrame ==
    /\ pc = "loop"
    /\ frame_idx < total_frames
    /\ LET vp == VisiblePoints(points, frame_idx, fps_scale)
       IN  /\ ~StyleKeyError(vp, style)
           /\ visible_points' = vp
           /\ visible_log' = Append(visible_log, vp)
           /\ frames_with_content' =
                 IF Len(vp) < 2 THEN frames_with_content ELSE frames_with_content + 1
           /\ img' = RasterFrame(vp, style, width, height, scale, line_width,
                                 glow_intensity)
           /\ overlay_dir' = SaveFile(overlay_dir, FramePath(frame_idx), img')
    /\ frame_idx' = frame_idx + 1
    /\ UNCHANGED <<data, pc, locals, input_file, output_file, ffmpeg, output_bytes,
                   result, raised>>

\* style["startColor"] or style["endColor"] on a style without it
RenderFrameKeyError ==
    /\ pc = "loop"
    /\ frame_idx < total_frames
    /\ LET vp == VisiblePoints(points, frame_idx, fps_scale)
       IN  /\ StyleKeyError(vp, style)
           /\ visible_points' = vp
           /\ visible_log' = Append(visible_log, vp)
           /\ frames_with_content' = frames_with_content + 1
           /\ img' = [size |-> <<width * scale, height * scale>>,
                      canvas |-> <<width * scale, height * scale>>, ops |-> <<>>]
    /\ raised' = "KeyError"
    /\ pc' = "raised"
    /\ Cleanup
    /\ UNCHANGED <<data, locals, frame_idx, ffmpeg, output_bytes, result>>

(***************************************************************************)
(* After the loop: the statistics that are printed, then FFmpeg.           *)
(***************************************************************************)
\* total_frames / frame_gen_elapsed when no time has passed (only an empty
\* loop can take none), or frames_with_content / total_frames with no frames
LoopStatsZeroDivision ==
    /\ pc = "loop"
    /\ frame_idx >= total_frames
    /\ frame_idx = 0
    /\ raised' = "ZeroDivisionError"
    /\ pc' = "raised"
    /\ Cleanup
    /\ UNCHANGED <<data, locals, loopVars, ffmpeg, output_bytes, result>>

LoopDone ==
    /\ pc = "loop"
    /\ frame_idx >= total_frames
    /\ total_frames # 0
    /\ pc' = "ffmpeg"
    /\ UNCHANGED <<data, locals, loopVars, input_file, overlay_dir, output_file,
                   ffmpeg, output_bytes, result, raised>>

\* subprocess.run(cmd, capture_output=True, text=True): FFmpeg reads the input
\* video and the numbered overlays, and either writes output.mp4 or fails
RunFFmpeg ==
    /\ pc = "ffmpeg"
    /\ LET frames == ReadSequence(overlay_dir)
       IN  \/ /\ frames # <<>>
              /\ ffmpeg' = [runs |-> ffmpeg.runs + 1, frames |-> frames,
                            returncode |-> 0, stderr |-> ""]
              /\ output_file' = <<[base |-> input_file, overlay |-> frames]>>
           \/ /\ \E text \in Diagnostics :
                    ffmpeg' = [runs |-> ffmpeg.runs + 1, frames |-> frames,
                               returncode |-> 1, stderr |-> text]
              /\ output_file' = NoFile
    /\ pc' = "check"
    /\ UNCHANGED <<data, locals, loopVars, input_file, overlay_dir, output_bytes,
                   result, raised>>

\* the two returns of the handler
Return ==
    /\ pc = "check"
    /\ output_bytes' = IF ffmpeg.returncode # 0 THEN output_bytes ELSE output_file
    /\ result' = Response(ffmpeg.returncode, ffmpeg.stderr, output_file)
    /\ pc' = "done"
    /\ Cleanup
    /\ UNCHANGED <<data, locals, loopVars, ffmpeg, raised>>

Next ==
    \/ BeginKeyError
    \/ BeginZeroDivision
    \/ Begin
    \/ RenderFrame
    \/ RenderFrameKeyError
    \/ LoopStatsZeroDivision
    \/ LoopDone
    \/ RunFFmpeg
    \/ Return

Spec == Init /\ [][Next]_vars

(***************************************************************************)
(* Vocabulary of the properties.                                           *)
(***************************************************************************)
Configured == pc \in {"loop", "ffmpeg", "check", "done", "raised"}

GeometryValid ==
    /\ output_fps > 0
    /\ source_fps > 0
    /\ duration[1] > 0
    /\ width > 0
    /\ height > 0

\* the frame the loop body produces for output frame k
FrameFor(k) ==
    RasterFrame(VisiblePoints(points, k, fps_scale), style, width, height, scale,
                line_width, glow_intensity)

Saved(k) == FramePath(k) \in DOMAIN overlay_dir

RatEq(a, b) == a[1] * b[2] = b[1] * a[2]

RatIsInt(a) == a[1] % a[2] = 0

IsPrefix(a, b) == Len(a) <= Len(b) /\ SubSeq(b, 1, Len(a)) = a

(***************************************************************************)
(* C1: for a job with valid geometry and N = total_frames, the encoder is  *)
(* not run before the loop has written the last frame, and what it reads   *)
(* is exactly N frames, the frame at position k being the frame rendered   *)
(* for output frame index k.                                               *)
(***************************************************************************)
C1_EncoderInputInOrder ==
    (Configured /\ GeometryValid) =>
        /\ (pc = "loop" => ffmpeg.runs = 0)
        /\ (ffmpeg.runs > 0 =>
              /\ frame_idx = total_frames
              /\ Len(ffmpeg.frames) = total_frames
              /\ \A k \in 0..(total_frames - 1) : ffmpeg.frames[k + 1] = FrameFor(k))

C1_Witness ==
    /\ GeometryValid
    /\ ffmpeg.runs > 0
    /\ total_frames >= 5
    /\ ffmpeg.frames[1] # ffmpeg.frames[3]
    /\ ffmpeg.frames[3] # ffmpeg.frames[5]

(***************************************************************************)
(* C2: when the encoder's return code is not 0, the job returns an error   *)
(* whose detail is the encoder's stderr, no video is in the result and the *)
(* output file was not read.                                               *)
(***************************************************************************)
C2_EncoderFailureReported ==
    (pc = "done" /\ ffmpeg.returncode # 0) =>
        /\ DOMAIN result = {"error"}
        /\ result["error"] = ffmpeg.stderr
        /\ output_bytes = NoFile

C2_Witness ==
    /\ pc = "done"
    /\ ffmpeg.returncode # 0
    /\ ffmpeg.stderr = "boom"
    /\ Len(ffmpeg.frames) >= 2

(***************************************************************************)
(* C7: every output frame whose visible set has fewer than 2 points is     *)
(* saved, and delivered to the encoder, as a frame of exactly width x      *)
(* height without any drawing operation, whatever the style and scale.     *)
(***************************************************************************)
C7_EmptyFramesTransparent ==
    Configured =>
        \A k \in 0..(Len(visible_log) - 1) :
            Len(visible_log[k + 1]) < 2 =>
                /\ Saved(k) =>
                      /\ overlay_dir[FramePath(k)].ops = <<>>
                      /\ overlay_dir[FramePath(k)].size = <<width, height>>
                /\ k < Len(ffmpeg.frames) =>
                      /\ ffmpeg.frames[k + 1].ops = <<>>
                      /\ ffmpeg.frames[k + 1].size = <<width, height>>

C7_Witness ==
    /\ ffmpeg.runs > 0
    /\ scale = 2
    /\ style # DefaultStyle
    /\ Len(visible_log) >= 2
    /\ Len(visible_log[1]) = 1
    /\ ffmpeg.frames[1].ops = <<>>
    /\ ffmpeg.frames[Len(ffmpeg.frames)].ops # <<>>

(***************************************************************************)
(* C10: the supersampling factor of a job is 1 or 2; it is 1 exactly when  *)
(* width x height >= 3840 x 2160 or total_frames > 600; and every frame    *)
(* that is drawn is drawn on a canvas of that factor.                      *)
(***************************************************************************)
C10_ScalePolicy ==
    Configured =>
        /\ scale \in {1, 2}
        /\ (scale = 1) <=> (width * height >= 3840 * 2160 \/ total_frames > 600)
        /\ \A k \in 0..(Len(visible_log) - 1) :
              (Saved(k) /\ overlay_dir[FramePath(k)].ops # <<>>) =>
                 overlay_dir[FramePath(k)].canvas = <<width * scale, height * scale>>

C10_Witness ==
    /\ pc = "loop"
    /\ scale = 1
    /\ width * height < 3840 * 2160
    /\ total_frames = 601
    /\ frame_idx = 2
    /\ overlay_dir[FramePath(1)].canvas = <<width, height>>
    /\ overlay_dir[FramePath(1)].ops # <<>>

(***************************************************************************)
(* Requests as the caller states them.                                     *)
(***************************************************************************)
StyleKeys == {"startColor", "endColor", "lineWidth", "glowIntensity"}

RequestGeometryValid ==
    /\ RequiredKeys \subseteq DOMAIN data
    /\ Get(data, "fps", DefaultFps) > 0
    /\ Get(data, "source_fps", DefaultSourceFps) > 0
    /\ data["duration"][1] > 0
    /\ data["width"] > 0
    /\ data["height"] > 0

RequestStyleComplete ==
    "style" \in DOMAIN data => StyleKeys \subseteq DOMAIN data["style"]

\* the style with the default put in for every omitted field
StyleWithDefaults ==
    [k \in StyleKeys |-> Get(Get(data, "style", DefaultStyle), k, DefaultStyle[k])]

(***************************************************************************)
(* C3 as claimed: a job whose request is valid never ends in an exception  *)
(* (it ends only through the encoder's result), the encoder runs at most   *)
(* once, a finished job has run it, and its result is either the complete  *)
(* video without an error or an error without a video.                     *)
(***************************************************************************)
C3_Original ==
    (RequestGeometryValid /\ RequestStyleComplete) =>
        /\ pc \notin {"rejected", "raised"}
        /\ ffmpeg.runs <= 1
        /\ pc = "done" =>
              /\ ffmpeg.runs = 1
              /\ \/ /\ DOMAIN result = {"success", "video_base64"}
                    /\ ffmpeg.returncode = 0
                    /\ Len(b64decode(result["video_base64"])[1].overlay) = total_frames
                 \/ /\ DOMAIN result = {"error"}
                    /\ ffmpeg.returncode # 0

(***************************************************************************)
(* C4 as claimed: for every point list, ascending or not, and all frames   *)
(* i, j with cutoff(i) <= cutoff(j), the visible set of i is a prefix of   *)
(* the visible set of j, and each visible set is the longest prefix of the *)
(* track whose points have frameIndex <= cutoff.                           *)
(***************************************************************************)
Cutoff(k) == SourceFrameIdx(k, fps_scale)

RECURSIVE LongestPrefix(_, _)
LongestPrefix(pts, cutoff) ==
    IF pts = <<>> \/ ~RatLe(Rat(Head(pts).frameIndex), cutoff) THEN <<>>
    ELSE <<Head(pts)>> \o LongestPrefix(Tail(pts), cutoff)

\* stated of the newest frame against every frame so far: every pair of frames
\* is such a pair in the state reached when the later of the two was rendered
PrefixMonotonic ==
    visible_log # <<>> =>
        LET j == Len(visible_log) - 1
        IN  /\ visible_log[j + 1] = LongestPrefix(points, Cutoff(j))
            /\ \A i \in 0..j :
                  /\ RatLe(Cutoff(i), Cutoff(j)) =>
                        IsPrefix(visible_log[i + 1], visible_log[j + 1])
                  /\ RatLe(Cutoff(j), Cutoff(i)) =>
                        IsPrefix(visible_log[j + 1], visible_log[i + 1])

C4_Original == Configured => PrefixMonotonic

(***************************************************************************)
(* C4 amended: the same, for point lists in ascending frameIndex order     *)
(* (repeated indices allowed).                                             *)
(***************************************************************************)
Ascending(pts) ==
    \A i \in 1..(Len(pts) - 1) : pts[i].frameIndex <= pts[i + 1].frameIndex

C4_AscendingPrefixMonotonic == (Configured /\ Ascending(points)) => PrefixMonotonic

C4_Witness ==
    /\ Ascending(points)
    /\ Len(points) = 3
    /\ points[1].frameIndex = points[2].frameIndex
    /\ Len(visible_log) >= 3
    /\ Len(visible_log[1]) = 0
    /\ Len(visible_log[2]) = 2
    /\ Len(visible_log[3]) = 3

OnDisk == Cardinality(DOMAIN overlay_dir)

Unconsumed == IF ffmpeg.runs = 0 THEN OnDisk ELSE 0

C6_Original == Unconsumed <= 2

(***************************************************************************)
(* C6 amended: one frame at a time is rasterized and the frame in memory   *)
(* is the one saved last, but every frame is kept as a file until the job  *)
(* ends: during the loop the directory holds one file per iteration done   *)
(* and the encoder has not run, and the encoder starts with all            *)
(* total_frames files on disk.                                             *)
(***************************************************************************)
C6_FramesMaterializedOnDisk ==
    /\ pc = "loop" =>
          /\ ffmpeg.runs = 0
          /\ OnDisk = frame_idx
          /\ frame_idx > 0 => (Saved(frame_idx - 1) /\ overlay_dir[FramePath(frame_idx - 1)] = img)
    /\ pc \in {"ffmpeg", "check"} =>
          OnDisk = (IF total_frames > 0 THEN total_frames ELSE 0)

C6_Witness ==
    /\ pc = "ffmpeg"
    /\ total_frames = 6
    /\ OnDisk = 6
    /\ ffmpeg.runs = 0

(***************************************************************************)
(* C8 as claimed: a request with a missing or non-positive geometry field  *)
(* has no frame produced or written, never reaches the encoder and never   *)
(* returns a result of the encoder.                                        *)
(***************************************************************************)
C8_Original ==
    ~RequestGeometryValid =>
        /\ visible_log = <<>>
        /\ OnDisk = 0
        /\ pc \notin {"ffmpeg", "check", "done"}

(***************************************************************************)
(* C9 as claimed: a request with valid geometry whose style omits fields   *)
(* never ends in an exception, and every frame it saves is the frame       *)
(* drawn with the default in place of each omitted field.                  *)
(***************************************************************************)
C9_Original ==
    RequestGeometryValid =>
        /\ raised # "KeyError"
        /\ \A k \in 0..(Len(visible_log) - 1) :
              Saved(k) =>
                 overlay_dir[FramePath(k)] =
                    RasterFrame(visible_log[k + 1], StyleWithDefaults, width, height,
                                scale, StyleWithDefaults["lineWidth"],
                                StyleWithDefaults["glowIntensity"])

====
